---- MODULE Spec2Model ----
(***************************************************************************)
(* Gotodo: a terminal task tracker with per-task time accounting.          *)
(*                                                                         *)
(* The model follows src/main.go: the model struct, initialModel, and one  *)
(* action per branch of model.Update, each with the tail of Update (cursor *)
(* clamp, SetContent, viewport.Update) that the branch runs into.          *)
(*                                                                         *)
(* The clock is the variable now.  A handler reads it (time.Now,           *)
(* time.Since) at the instant the event is processed; the clock moves only *)
(* between events (Advance).  ZeroTime is Go's zero time.Time, which no    *)
(* reading of the clock returns.                                           *)
(*                                                                         *)
(* State that only renderTasksView reads is no variable here: the two      *)
(* display toggles (showLineNumbers, useJalaliCalendar) and Task.CreatedAt *)
(* are inputs of the renderer.  The handlers of the two toggle keys are    *)
(* actions all the same, with everything else they do.  m.ready is         *)
(* height # 0: both are set by the first WindowSizeMsg.                    *)
(*                                                                         *)
(* The viewport is github.com/charmbracelet/bubbles/viewport: YOffset,     *)
(* Height and the lines it holds (their number, and the time column that   *)
(* renderTasksView computed for them), with SetYOffset's clamp,            *)
(* SetContent's jump to the bottom and the default key map of              *)
(* viewport.Update.  View() shows the lines the viewport holds.            *)
(***************************************************************************)
EXTENDS Integers, Sequences, FiniteSets, TLC

\* ------------------------------------------------------------------ bounds
MaxTasks == 2
MaxLoaded == 2
MaxTime == 3
MaxInputLen == 1
MaxViewRows == 3
MaxListed == 5

\* ------------------------------------------------------- program constants
Pending == 0
InProgress == 1
Paused == 2
Completed == 3

ZeroTime == 0
appVerticalPadding == 2
titleViewHeight == 2
statsBarHeight == 2
calendarIndicatorHeight == 2
helpViewHeight == 1
errorViewHeight == 4
viewportFrameHeight == 2
initialViewportHeight == 20
mouseWheelDelta == 3

modeViewTasks == "view"
modeAddTask == "add"

\* The keys the session can receive; every other key behaves like one of these.
Keys == {"a", "d", "s", "c", "up", "down", "q", "ctrl+c", "enter", "esc",
         "n", "j", " ", "pgup", "pgdown"}

\* Keys that carry a printable character (tea.KeyRunes / tea.KeySpace).
RuneKeys == {"a", "d", "s", "c", "q", "n", "j", " "}

ErrNil == "nil"
ErrNotExist == "notexist"
ErrLoad == "load"
ErrSave == "save"

VARIABLES
    tasks,            \* m.tasks: sequence of Task records (index 1 is Go index 0)
    cursor,           \* m.cursor (0-based)
    mode,             \* m.mode
    input,            \* m.input.Value(): sequence of characters
    yOffset,          \* m.viewport.YOffset
    vpHeight,         \* m.viewport.Height
    vpLines,          \* number of lines the viewport holds (len(m.viewport.lines))
    shown,            \* the time column of the lines the viewport holds, one per task
    height,           \* m.height: last terminal height received
    err,              \* m.err
    quitting,         \* m.quitting
    ticks,            \* tick commands outstanding in the runtime
    disk,             \* what saveTasksToFile was called with, how often, and how often
                      \* loadTasksFromFile was called
    now,              \* the wall clock
    ghost,            \* history: per task created in the session, its InProgress intervals
    call              \* a function of the program applied on its own: name, argument, result

vars == <<tasks, cursor, mode, input, yOffset, vpHeight, vpLines, shown, height,
          err, quitting, ticks, disk, now, ghost, call>>

\* ------------------------------------------------------------------ helpers
max(a, b) == IF a > b THEN a ELSE b

min(a, b) == IF a < b THEN a ELSE b

clamp(v, lo, hi) == max(lo, min(hi, v))

Ids(ts) == {ts[i].id : i \in DOMAIN ts}

TaskById(ts, id) == ts[CHOOSE i \in DOMAIN ts : ts[i].id = id]

\* uuid.New(): an identifier no task of the store carries.
FreshId(ts) == CHOOSE n \in 1..(Len(ts) + 1) : n \notin Ids(ts)

\* time.Since(t) read at clock value t1.
Since(t, t1) == t1 - t

\* Faulty variant of the blank test: only the empty input counts as blank.
IsBlank_EmptyOnly(s) == s = <<>>

\* strings.TrimSpace(s) != ""
IsBlank(s) == \A i \in DOMAIN s : s[i] = " "

CountInProgress(ts) == Cardinality({i \in DOMAIN ts : ts[i].status = InProgress})

\* ------------------------------------------------------- lifecycle engine
\* Faulty variants of Accrue: the time of the run replaces the time already spent;
\* the guard against an unset start is missing.
Accrue_Overwrite(t, t1) ==
    IF t.lastStartedAt # ZeroTime
    THEN [t EXCEPT !.timeSpent = Since(t.lastStartedAt, t1)]
    ELSE t

Accrue_Unguarded(t, t1) == [t EXCEPT !.timeSpent = @ + Since(t.lastStartedAt, t1)]

\* The accrual every site performs: if !LastStartedAt.IsZero() { TimeSpent += time.Since(LastStartedAt) }
Accrue(t, t1) ==
    IF t.lastStartedAt # ZeroTime
    THEN [t EXCEPT !.timeSpent = @ + Since(t.lastStartedAt, t1)]
    ELSE t

\* Faulty variants of PauseOthers: the loop is missing; the loop pauses without accruing.
PauseOthers_Skip(ts, cur, t1) == ts

\* Faulty variant of the loop: it stops at the first other InProgress task.
PauseOthers_FirstOnly(ts, cur, t1) ==
    LET running == {i \in DOMAIN ts : ts[i].status = InProgress /\ i # cur + 1} IN
    [i \in DOMAIN ts |->
        IF i \in running /\ (\A j \in running : i <= j)
        THEN [Accrue(ts[i], t1) EXCEPT !.status = Paused]
        ELSE ts[i]]

PauseOthers_NoAccrue(ts, cur, t1) ==
    [i \in DOMAIN ts |->
        IF ts[i].status = InProgress /\ i # cur + 1
        THEN [ts[i] EXCEPT !.status = Paused]
        ELSE ts[i]]

\* The loop of the Pending/Paused branch of toggle: every other InProgress task is paused.
PauseOthers(ts, cur, t1) ==
    [i \in DOMAIN ts |->
        IF ts[i].status = InProgress /\ i # cur + 1
        THEN [Accrue(ts[i], t1) EXCEPT !.status = Paused]
        ELSE ts[i]]

\* Faulty variants of the toggle branch: pausing forgets the accrual; a Completed task
\* is started again like a Paused one.
ToggleTasks_PauseNoAccrue(ts, cur, t1) ==
    IF Len(ts) > 0 /\ cur < Len(ts)
    THEN LET task == ts[cur + 1] IN
         CASE task.status \in {Pending, Paused} ->
                [PauseOthers(ts, cur, t1) EXCEPT
                    ![cur + 1] = [task EXCEPT !.status = InProgress, !.lastStartedAt = t1]]
           [] task.status = InProgress ->
                [ts EXCEPT ![cur + 1] = [task EXCEPT !.status = Paused]]
           [] OTHER -> ts
    ELSE ts

ToggleTasks_Reopen(ts, cur, t1) ==
    IF Len(ts) > 0 /\ cur < Len(ts)
    THEN LET task == ts[cur + 1] IN
         CASE task.status \in {Pending, Paused, Completed} ->
                [PauseOthers(ts, cur, t1) EXCEPT
                    ![cur + 1] = [task EXCEPT !.status = InProgress, !.lastStartedAt = t1]]
           [] OTHER ->
                [ts EXCEPT ![cur + 1] = Accrue([task EXCEPT !.status = Paused], t1)]
    ELSE ts

\* Faulty variant of the toggle branch: starting a task leaves its start time as it was.
ToggleTasks_NoStart(ts, cur, t1) ==
    IF Len(ts) > 0 /\ cur < Len(ts)
    THEN LET task == ts[cur + 1] IN
         CASE task.status \in {Pending, Paused} ->
                [PauseOthers(ts, cur, t1) EXCEPT
                    ![cur + 1] = [task EXCEPT !.status = InProgress]]
           [] task.status = InProgress ->
                [ts EXCEPT ![cur + 1] = Accrue([task EXCEPT !.status = Paused], t1)]
           [] OTHER -> ts
    ELSE ts

\* case key.Matches(msg, m.keyMap.Toggle)
ToggleTasks(ts, cur, t1) ==
    IF Len(ts) > 0 /\ cur < Len(ts)
    THEN LET task == ts[cur + 1] IN
         CASE task.status \in {Pending, Paused} ->
                [PauseOthers(ts, cur, t1) EXCEPT
                    ![cur + 1] = [task EXCEPT !.status = InProgress, !.lastStartedAt = t1]]
           [] task.status = InProgress ->
                [ts EXCEPT ![cur + 1] = Accrue([task EXCEPT !.status = Paused], t1)]
           [] OTHER -> ts
    ELSE ts

\* Faulty variant of the complete branch: a running task is completed without accrual.
CompleteTasks_NoAccrue(ts, cur, t1) ==
    IF Len(ts) > 0 /\ cur < Len(ts)
    THEN [ts EXCEPT ![cur + 1] = [@ EXCEPT !.status = Completed]]
    ELSE ts

\* Faulty variant of the complete branch: the completed task sinks to the end of the
\* store.
CompleteTasks_Sink(ts, cur, t1) ==
    IF Len(ts) > 0 /\ cur < Len(ts)
    THEN LET task == ts[cur + 1]
             acc == IF task.status = InProgress THEN Accrue(task, t1) ELSE task
         IN  [i \in 1..Len(ts) |->
                 IF i < cur + 1 THEN ts[i]
                 ELSE IF i < Len(ts) THEN ts[i + 1]
                 ELSE [acc EXCEPT !.status = Completed]]
    ELSE ts

\* case key.Matches(msg, m.keyMap.Complete)
CompleteTasks(ts, cur, t1) ==
    IF Len(ts) > 0 /\ cur < Len(ts)
    THEN LET task == ts[cur + 1]
             acc == IF task.status = InProgress THEN Accrue(task, t1) ELSE task
         IN  [ts EXCEPT ![cur + 1] = [acc EXCEPT !.status = Completed]]
    ELSE ts

\* Faulty variants of the quit loop: the running interval is dropped; the status is
\* left as it was.
QuitTasks_NoAccrue(ts, t1) ==
    [i \in DOMAIN ts |->
        IF ts[i].status = InProgress THEN [ts[i] EXCEPT !.status = Paused] ELSE ts[i]]

QuitTasks_KeepStatus(ts, t1) ==
    [i \in DOMAIN ts |-> IF ts[i].status = InProgress THEN Accrue(ts[i], t1) ELSE ts[i]]

\* The loop of the quit branch: every InProgress task is accrued and paused.
QuitTasks(ts, t1) ==
    [i \in DOMAIN ts |->
        IF ts[i].status = InProgress
        THEN [Accrue(ts[i], t1) EXCEPT !.status = Paused]
        ELSE ts[i]]

\* Faulty variant of the removal: the last task goes, whichever the cursor is on.
RemoveAt_Last(ts, cur) == [i \in 1..(Len(ts) - 1) |-> ts[i]]

\* append(m.tasks[:m.cursor], m.tasks[m.cursor+1:]...)
RemoveAt(ts, cur) ==
    [i \in 1..(Len(ts) - 1) |-> IF i < cur + 1 THEN ts[i] ELSE ts[i + 1]]

\* Task{ID: uuid.New(), Description: m.input.Value(), Status: Pending, ...}
NewTask(ts, text, t1) ==
    [id |-> FreshId(ts), desc |-> text, status |-> Pending, timeSpent |-> 0,
     lastStartedAt |-> ZeroTime]

\* Faulty variant of the insertion: the new task goes to the end of the store.
Prepend_AtEnd(ts, text, t1) == ts \o <<NewTask(ts, text, t1)>>

\* append([]Task{newTask}, m.tasks...)
Prepend(ts, text, t1) == <<NewTask(ts, text, t1)>> \o ts

\* The effective-time computation of renderTasksView (timeDisplay).
timeDisplay(t, t1) ==
    IF t.status = InProgress /\ t.lastStartedAt # ZeroTime
    THEN t.timeSpent + Since(t.lastStartedAt, t1)
    ELSE t.timeSpent

\* renderTasksView: the time column of the rendered list, computed when it is called.
TimeColumn(ts, t1) == [i \in 1..Len(ts) |-> timeDisplay(ts[i], t1)]

\* Faulty variant of the cursor clamp: the bound is off by one.
ClampCursor_OffByOne(cur, n) ==
    IF n > 0
    THEN (IF cur >= n - 1 THEN n ELSE IF cur < 0 THEN 0 ELSE cur)
    ELSE 0

\* The cursor clamp at the end of Update.
ClampCursor(cur, n) ==
    IF n > 0
    THEN (IF cur >= n THEN n - 1 ELSE IF cur < 0 THEN 0 ELSE cur)
    ELSE 0

\* ------------------------------------------------------------- the viewport
\* renderTasksView: one rendered row per task, a single blank line for an empty store.
LineCount(ts) == IF Len(ts) = 0 THEN 1 ELSE Len(ts)

maxYOffset(lines, h) == max(0, lines - h)

SetYOffset(n, lines, h) == clamp(n, 0, maxYOffset(lines, h))

\* viewport.SetContent: a scroll offset past the last line goes to the bottom.
SetContent(off, lines, h) ==
    IF off > lines - 1 THEN SetYOffset(maxYOffset(lines, h), lines, h) ELSE off

LineDown(off, n, lines, h) ==
    IF off >= maxYOffset(lines, h) \/ n = 0 \/ lines = 0 THEN off
    ELSE SetYOffset(off + n, lines, h)

LineUp(off, n, lines, h) ==
    IF off <= 0 \/ n = 0 \/ lines = 0 THEN off
    ELSE SetYOffset(off - n, lines, h)

\* viewport.Update on a key message, with the viewport's default key map.
ViewportKey(off, k, lines, h) ==
    CASE k \in {"pgdown", " "} -> LineDown(off, h, lines, h)
      [] k = "pgup"            -> LineUp(off, h, lines, h)
      [] k = "d"               -> LineDown(off, h \div 2, lines, h)
      [] k \in {"down", "j"}   -> LineDown(off, 1, lines, h)
      [] k = "up"              -> LineUp(off, 1, lines, h)
      [] OTHER                 -> off

\* Faulty variant of ensureCursorVisible: scrolling down stops one row short.
ensureCursorVisible_Short(ts, cur, off, lines, h) ==
    IF Len(ts) = 0 THEN off
    ELSE IF cur < off THEN SetYOffset(cur, lines, h)
    ELSE IF cur >= off + h THEN SetYOffset(cur - h, lines, h)
    ELSE off

\* m.ensureCursorVisible()
ensureCursorVisible(ts, cur, off, lines, h) ==
    IF Len(ts) = 0 THEN off
    ELSE IF cur < off THEN SetYOffset(cur, lines, h)
    ELSE IF cur >= off + h THEN SetYOffset(cur - h + 1, lines, h)
    ELSE off

\* The rows the resize branch takes off the terminal height when no error is held.
ResizedHeightBase ==
    appVerticalPadding + titleViewHeight + statsBarHeight + calendarIndicatorHeight
        + helpViewHeight + viewportFrameHeight

\* The viewport height the resize branch computes in task-view mode.
ResizedHeight(termHeight, e) ==
    max(1, termHeight - appVerticalPadding - titleViewHeight - statsBarHeight
             - calendarIndicatorHeight - helpViewHeight
             - (IF e # ErrNil THEN errorViewHeight ELSE 0)
             - viewportFrameHeight)

\* --------------------------------------------------------------- history
\* ghost[id] = [done |-> total length of the InProgress intervals of task id that have
\* ended, open |-> start of the interval that is running, ZeroTime if none].  It is
\* kept from the statuses alone, never from timeSpent or lastStartedAt.
Observe(g, old, new, t1) ==
    [id \in (DOMAIN g \cap Ids(new)) \cup (Ids(new) \ Ids(old)) |->
        IF id \notin Ids(old) THEN [done |-> 0, open |-> ZeroTime]
        ELSE LET was == TaskById(old, id).status
                 is  == TaskById(new, id).status
             IN  IF was # InProgress /\ is = InProgress THEN [g[id] EXCEPT !.open = t1]
                 ELSE IF was = InProgress /\ is # InProgress
                 THEN [done |-> g[id].done + (t1 - g[id].open), open |-> ZeroTime]
                 ELSE g[id]]

\* ------------------------------------------------------------- initial state
\* The tasks json.Unmarshal can deliver, by shape: each status, with a time already
\* spent and a last start in the past; and the InProgress task whose last start is
\* unset, which only a file written by hand holds.
LoadedShapes ==
    {[status |-> Pending,    timeSpent |-> 0, lastStartedAt |-> ZeroTime],
     [status |-> InProgress, timeSpent |-> 1, lastStartedAt |-> 1],
     [status |-> InProgress, timeSpent |-> 1, lastStartedAt |-> ZeroTime],
     [status |-> Paused,     timeSpent |-> 1, lastStartedAt |-> 1],
     [status |-> Completed,  timeSpent |-> 1, lastStartedAt |-> 1]}

LoadedTask(i) ==
    {[id |-> i, desc |-> <<"x">>, status |-> sh.status, timeSpent |-> sh.timeSpent,
      lastStartedAt |-> sh.lastStartedAt] : sh \in LoadedShapes}

LoadedStores ==
    UNION {{ts \in [1..n -> UNION {LoadedTask(i) : i \in 1..n}] :
                \A i \in 1..n : ts[i] \in LoadedTask(i)} : n \in 0..MaxLoaded}

\* A file written by a session that quit normally, or by hand within the data model:
\* at most one task InProgress, and an InProgress task has a start time.
ValidStore(ts) ==
    /\ CountInProgress(ts) <= 1
    /\ \A i \in DOMAIN ts : ts[i].status = InProgress => ts[i].lastStartedAt # ZeroTime

\* Faulty variant of loadTasksFromFile: an undecodable file yields the tasks decoded so
\* far together with the error.
LoadOutcomes_KeepsPartial(stores) ==
    {[tasks |-> <<>>, err |-> ErrNotExist]}
        \cup {[tasks |-> ts, err |-> e] : ts \in stores, e \in {ErrNil, ErrLoad}}

\* loadTasksFromFile: the file is absent, unreadable or undecodable, or holds a store.
LoadOutcomes(stores) ==
    {[tasks |-> <<>>, err |-> ErrNotExist], [tasks |-> <<>>, err |-> ErrLoad]}
        \cup {[tasks |-> ts, err |-> ErrNil] : ts \in stores}

\* initialModel()
InitFrom(stores) ==
    \E l \in LoadOutcomes(stores) :
        /\ tasks = l.tasks
        /\ err = l.err
        /\ mode = IF Len(l.tasks) = 0 /\ l.err = ErrNil THEN modeAddTask ELSE modeViewTasks
        /\ cursor = 0
        /\ input = <<>>
        /\ yOffset = 0
        /\ vpHeight = initialViewportHeight
        /\ vpLines = 0
        /\ shown = <<>>
        /\ height = 0
        /\ quitting = FALSE
        /\ ticks = 1
        /\ disk = [calls |-> 0, tasks |-> <<>>, loads |-> 1]
        /\ now = 1
        /\ ghost = <<>>

\* In a session no function is applied on its own.
NoCall == [fn |-> "none"]

Init == InitFrom(LoadedStores) /\ call = NoCall

\* A file of finished tasks, longer than the window: no event changes a Completed task,
\* so the list can be long while the lifecycle stays small.
FinishedTask(i) ==
    [id |-> i, desc |-> <<"x">>, status |-> Completed, timeSpent |-> 1, lastStartedAt |-> 1]

ListStores == {[i \in 1..n |-> FinishedTask(i)] : n \in 0..MaxListed}

InitList == InitFrom(ListStores) /\ call = NoCall

InitValid == InitFrom({ts \in LoadedStores : ValidStore(ts)}) /\ call = NoCall

\* The terminal heights a resize delivers: the smallest and the largest window, which
\* leave 1 and MaxViewRows rows to the list when no error band is shown, and fewer
\* (clamped to 1) when one is.
TermHeights ==
    {ResizedHeightBase + 1, ResizedHeightBase + MaxViewRows}

\* ------------------------------------------------------------------ actions
\* Faulty variant of the head of the key branch: file-absent is cleared like any error.
ErrAfterKey_ClearsAbsent(e, k) ==
    IF e # ErrNil /\ k # "ctrl+c" /\ k # "q" THEN ErrNil ELSE e

\* The head of the key branch: an error other than file-absent is cleared by any key
\* but q and ctrl+c.
ErrAfterKey(e, k) ==
    IF e # ErrNil /\ k # "ctrl+c" /\ k # "q" /\ e # ErrNotExist THEN ErrNil ELSE e

\* The tail of Update: clamp the cursor, set the content, hand the message to the viewport.
Finish(ts, cur, off, k) ==
    /\ cursor' = ClampCursor(cur, Len(ts))
    /\ vpLines' = LineCount(ts)
    /\ shown' = TimeColumn(ts, now)
    /\ yOffset' = ViewportKey(SetContent(off, LineCount(ts), vpHeight), k,
                              LineCount(ts), vpHeight)

\* The clock moves between events.
Advance ==
    /\ now < MaxTime
    /\ now' = now + 1
    /\ UNCHANGED <<tasks, cursor, mode, input, yOffset, vpHeight, vpLines, shown, height,
                   err, quitting, ticks, disk, ghost, call>>

\* Faulty variant of the tick branch: it returns no command, so no next tick is scheduled.
Tick_NoReschedule ==
    /\ ~quitting
    /\ ticks > 0
    /\ ticks' = ticks - 1
    /\ UNCHANGED <<tasks, cursor, mode, input, yOffset, vpHeight, vpLines, shown, height,
                   err, quitting, disk, now, ghost, call>>

\* Faulty variant of the tick branch: it falls through to the tail of Update.
Tick_Render ==
    /\ ~quitting
    /\ ticks > 0
    /\ ticks' = (ticks - 1) + 1
    /\ Finish(tasks, cursor, yOffset, "tick")
    /\ UNCHANGED <<tasks, mode, input, vpHeight, height, err, quitting, disk, now, ghost, call>>

\* case TickMsg: return m, doTick()
Tick ==
    /\ ~quitting
    /\ ticks > 0
    /\ ticks' = (ticks - 1) + 1
    /\ UNCHANGED <<tasks, cursor, mode, input, yOffset, vpHeight, vpLines, shown, height,
                   err, quitting, disk, now, ghost, call>>

\* case tea.WindowSizeMsg
WindowSize ==
    \E th \in TermHeights :
        /\ ~quitting
        /\ height' = th
        /\ vpHeight' = IF mode = modeAddTask THEN vpHeight ELSE ResizedHeight(th, err)
        /\ cursor' = ClampCursor(cursor, Len(tasks))
        /\ vpLines' = LineCount(tasks)
        /\ shown' = TimeColumn(tasks, now)
        /\ yOffset' = SetContent(SetContent(yOffset, LineCount(tasks), vpHeight'),
                                 LineCount(tasks), vpHeight')
        /\ UNCHANGED <<tasks, mode, input, err, quitting, ticks, disk, now, ghost, call>>

\* A mouse wheel message: no branch of Update takes it, the viewport scrolls by it.
MouseWheel ==
    \E up \in BOOLEAN :
        /\ ~quitting
        /\ cursor' = ClampCursor(cursor, Len(tasks))
        /\ vpLines' = LineCount(tasks)
        /\ shown' = TimeColumn(tasks, now)
        /\ yOffset' = LET off == SetContent(yOffset, LineCount(tasks), vpHeight) IN
                      IF up THEN LineUp(off, mouseWheelDelta, LineCount(tasks), vpHeight)
                      ELSE LineDown(off, mouseWheelDelta, LineCount(tasks), vpHeight)
        /\ UNCHANGED <<tasks, mode, input, vpHeight, height, err, quitting, ticks, disk, now, ghost, call>>

\* case key.Matches(msg, m.keyMap.ToggleLineNumbers)
KeyToggleLineNumbers ==
    /\ ~quitting /\ mode = modeViewTasks
    /\ err' = ErrAfterKey(err, "n")
    /\ Finish(tasks, cursor, yOffset, "n")
    /\ UNCHANGED <<tasks, mode, input, vpHeight, height, quitting, ticks, disk, now, ghost, call>>

\* case key.Matches(msg, m.keyMap.ToggleCalendar)
KeyToggleCalendar ==
    /\ ~quitting /\ mode = modeViewTasks
    /\ err' = ErrAfterKey(err, "j")
    /\ Finish(tasks, cursor, yOffset, "j")
    /\ UNCHANGED <<tasks, mode, input, vpHeight, height, quitting, ticks, disk, now, ghost, call>>

\* Faulty variant of the Quit branch: a failed save records the error and returns no
\* terminate command.
QuitWith_StayOnFailure(k, saved) ==
    /\ ~quitting /\ mode = modeViewTasks
    /\ quitting' = saved
    /\ tasks' = QuitTasks(tasks, now)
    /\ disk' = [disk EXCEPT !.calls = @ + 1, !.tasks = tasks']
    /\ err' = IF saved THEN ErrAfterKey(err, k) ELSE ErrSave
    /\ ghost' = Observe(ghost, tasks, tasks', now)
    /\ UNCHANGED <<cursor, mode, input, yOffset, vpHeight, vpLines, shown, height,
                   ticks, now, call>>

\* The Quit branch on key k, with the outcome of saveTasksToFile: accrue, save, record a
\* save error, return tea.Quit.
QuitWith(k, saved) ==
    /\ ~quitting /\ mode = modeViewTasks
    /\ quitting' = TRUE
    /\ tasks' = QuitTasks(tasks, now)
    /\ disk' = [disk EXCEPT !.calls = @ + 1, !.tasks = tasks']
    /\ err' = IF saved THEN ErrAfterKey(err, k) ELSE ErrSave
    /\ ghost' = Observe(ghost, tasks, tasks', now)
    /\ UNCHANGED <<cursor, mode, input, yOffset, vpHeight, vpLines, shown, height,
                   ticks, now, call>>

\* case key.Matches(msg, m.keyMap.Quit): accrue, save, return tea.Quit
KeyQuit ==
    \E k \in {"q", "ctrl+c"}, saved \in BOOLEAN : QuitWith(k, saved)

\* case key.Matches(msg, m.keyMap.Add): return m, textinput.Blink
KeyAdd ==
    /\ ~quitting /\ mode = modeViewTasks
    /\ err' = ErrAfterKey(err, "a")
    /\ mode' = modeAddTask
    /\ input' = <<>>
    /\ UNCHANGED <<tasks, cursor, yOffset, vpHeight, vpLines, shown, height, quitting,
                   ticks, disk, now, ghost, call>>

\* Faulty variant of the Delete branch: the cursor goes to the first row after every
\* removal.
KeyDelete_CursorToTop ==
    /\ ~quitting /\ mode = modeViewTasks
    /\ err' = ErrAfterKey(err, "d")
    /\ IF Len(tasks) > 0 /\ cursor < Len(tasks)
       THEN /\ tasks' = RemoveAt(tasks, cursor)
            /\ IF Len(tasks') = 0
               THEN /\ cursor' = 0
                    /\ mode' = modeAddTask
                    /\ UNCHANGED <<yOffset, vpLines, shown>>
               ELSE /\ mode' = mode
                    /\ Finish(tasks', 0, yOffset, "d")
       ELSE /\ Finish(tasks, cursor, yOffset, "d")
            /\ UNCHANGED <<tasks, mode>>
    /\ ghost' = Observe(ghost, tasks, tasks', now)
    /\ UNCHANGED <<input, vpHeight, height, quitting, ticks, disk, now, call>>

\* case key.Matches(msg, m.keyMap.Delete)
KeyDelete ==
    /\ ~quitting /\ mode = modeViewTasks
    /\ err' = ErrAfterKey(err, "d")
    /\ IF Len(tasks) > 0 /\ cursor < Len(tasks)
       THEN /\ tasks' = RemoveAt(tasks, cursor)
            /\ IF Len(tasks') = 0
               THEN /\ cursor' = 0
                    /\ mode' = modeAddTask
                    /\ UNCHANGED <<yOffset, vpLines, shown>>
               ELSE /\ mode' = mode
                    /\ Finish(tasks',
                              IF cursor >= Len(tasks') THEN Len(tasks') - 1 ELSE cursor,
                              yOffset, "d")
       ELSE /\ Finish(tasks, cursor, yOffset, "d")
            /\ UNCHANGED <<tasks, mode>>
    /\ ghost' = Observe(ghost, tasks, tasks', now)
    /\ UNCHANGED <<input, vpHeight, height, quitting, ticks, disk, now, call>>

\* case key.Matches(msg, m.keyMap.Up)
KeyUp ==
    /\ ~quitting /\ mode = modeViewTasks
    /\ err' = ErrAfterKey(err, "up")
    /\ IF Len(tasks) > 0 /\ cursor > 0
       THEN Finish(tasks, cursor - 1,
                   ensureCursorVisible(tasks, cursor - 1, yOffset, vpLines, vpHeight), "up")
       ELSE Finish(tasks, cursor, yOffset, "up")
    /\ UNCHANGED <<tasks, mode, input, vpHeight, height, quitting, ticks, disk, now, ghost, call>>

\* Faulty variant of the Down branch: at the last index the cursor wraps to the first.
KeyDown_Wrap ==
    /\ ~quitting /\ mode = modeViewTasks
    /\ err' = ErrAfterKey(err, "down")
    /\ IF Len(tasks) > 0
       THEN LET c == IF cursor < Len(tasks) - 1 THEN cursor + 1 ELSE 0 IN
            Finish(tasks, c, ensureCursorVisible(tasks, c, yOffset, vpLines, vpHeight), "down")
       ELSE Finish(tasks, cursor, yOffset, "down")
    /\ UNCHANGED <<tasks, mode, input, vpHeight, height, quitting, ticks, disk, now, ghost, call>>

\* case key.Matches(msg, m.keyMap.Down)
KeyDown ==
    /\ ~quitting /\ mode = modeViewTasks
    /\ err' = ErrAfterKey(err, "down")
    /\ IF Len(tasks) > 0 /\ cursor < Len(tasks) - 1
       THEN Finish(tasks, cursor + 1,
                   ensureCursorVisible(tasks, cursor + 1, yOffset, vpLines, vpHeight), "down")
       ELSE Finish(tasks, cursor, yOffset, "down")
    /\ UNCHANGED <<tasks, mode, input, vpHeight, height, quitting, ticks, disk, now, ghost, call>>

\* Faulty variant of the Toggle branch: the store is saved after the toggle.
KeyToggle_Saves ==
    /\ ~quitting /\ mode = modeViewTasks
    /\ err' = ErrAfterKey(err, "s")
    /\ tasks' = ToggleTasks(tasks, cursor, now)
    /\ Finish(tasks', cursor, yOffset, "s")
    /\ ghost' = Observe(ghost, tasks, tasks', now)
    /\ disk' = [disk EXCEPT !.calls = 1, !.tasks = tasks']
    /\ UNCHANGED <<mode, input, vpHeight, height, quitting, ticks, now, call>>

\* case key.Matches(msg, m.keyMap.Toggle)
KeyToggle ==
    /\ ~quitting /\ mode = modeViewTasks
    /\ err' = ErrAfterKey(err, "s")
    /\ tasks' = ToggleTasks(tasks, cursor, now)
    /\ Finish(tasks', cursor, yOffset, "s")
    /\ ghost' = Observe(ghost, tasks, tasks', now)
    /\ UNCHANGED <<mode, input, vpHeight, height, quitting, ticks, disk, now, call>>

\* case key.Matches(msg, m.keyMap.Complete)
KeyComplete ==
    /\ ~quitting /\ mode = modeViewTasks
    /\ err' = ErrAfterKey(err, "c")
    /\ tasks' = CompleteTasks(tasks, cursor, now)
    /\ Finish(tasks', cursor, yOffset, "c")
    /\ ghost' = Observe(ghost, tasks, tasks', now)
    /\ UNCHANGED <<mode, input, vpHeight, height, quitting, ticks, disk, now, call>>

\* A key that no case of the task-view switch matches.
KeyOtherView ==
    \E k \in {"enter", "esc", " ", "pgup", "pgdown"} :
        /\ ~quitting /\ mode = modeViewTasks
        /\ err' = ErrAfterKey(err, k)
        /\ Finish(tasks, cursor, yOffset, k)
        /\ UNCHANGED <<tasks, mode, input, vpHeight, height, quitting, ticks, disk, now, ghost, call>>

\* Faulty variant of the Enter branch: a confirmed add returns to the task view.
KeyEnter_Returns ==
    /\ ~quitting /\ mode = modeAddTask
    /\ err' = ErrAfterKey(err, "enter")
    /\ IF ~IsBlank(input)
       THEN /\ Len(tasks) < MaxTasks
            /\ tasks' = Prepend(tasks, input, now)
            /\ input' = <<>>
            /\ mode' = modeViewTasks
            /\ Finish(tasks', 0, yOffset, "enter")
       ELSE /\ Finish(tasks, cursor, yOffset, "enter")
            /\ UNCHANGED <<tasks, input, mode>>
    /\ ghost' = Observe(ghost, tasks, tasks', now)
    /\ UNCHANGED <<vpHeight, height, quitting, ticks, disk, now, call>>

\* modeAddTask, case key.Matches(msg, m.keyMap.Enter)
KeyEnter ==
    /\ ~quitting /\ mode = modeAddTask
    /\ err' = ErrAfterKey(err, "enter")
    /\ IF ~IsBlank(input)
       THEN /\ Len(tasks) < MaxTasks
            /\ tasks' = Prepend(tasks, input, now)
            /\ input' = <<>>
            /\ Finish(tasks', 0, yOffset, "enter")
       ELSE /\ Finish(tasks, cursor, yOffset, "enter")
            /\ UNCHANGED <<tasks, input>>
    /\ ghost' = Observe(ghost, tasks, tasks', now)
    /\ UNCHANGED <<mode, vpHeight, height, quitting, ticks, disk, now, call>>

\* modeAddTask, case key.Matches(msg, m.keyMap.Esc)
KeyEsc ==
    /\ ~quitting /\ mode = modeAddTask
    /\ err' = ErrAfterKey(err, "esc")
    /\ mode' = modeViewTasks
    /\ input' = <<>>
    /\ Finish(tasks, cursor, yOffset, "esc")
    /\ UNCHANGED <<tasks, vpHeight, height, quitting, ticks, disk, now, ghost, call>>

\* The character a key types into the text input; the program tells blank from
\* non-blank characters only.
CharOf(k) == IF k = " " THEN " " ELSE "x"

\* m.input.Update(msg) for a key: a printable key is appended up to the character limit.
InputUpdate(buf, k) ==
    IF k \in RuneKeys /\ Len(buf) < MaxInputLen THEN Append(buf, CharOf(k)) ELSE buf

\* modeAddTask, default, on key k: the key goes to the text input, whatever it is bound to
\* in task-view mode.
InputKey(k) ==
    /\ ~quitting /\ mode = modeAddTask
    /\ err' = ErrAfterKey(err, k)
    /\ input' = InputUpdate(input, k)
    /\ Finish(tasks, cursor, yOffset, k)
    /\ UNCHANGED <<tasks, mode, vpHeight, height, quitting, ticks, disk, now, ghost, call>>

\* modeAddTask, default: the key goes to the text input
KeyInput ==
    \E k \in Keys \ {"enter", "esc"} : InputKey(k)

Next ==
    \/ Advance
    \/ Tick
    \/ WindowSize
    \/ MouseWheel
    \/ KeyToggleLineNumbers
    \/ KeyToggleCalendar
    \/ KeyQuit
    \/ KeyAdd
    \/ KeyDelete
    \/ KeyUp
    \/ KeyDown
    \/ KeyToggle
    \/ KeyComplete
    \/ KeyOtherView
    \/ KeyEnter
    \/ KeyEsc
    \/ KeyInput

Spec == Init /\ [][Next]_vars

SpecValid == InitValid /\ [][Next]_vars

SpecList == InitList /\ [][Next]_vars

\* Files of three tasks, each task of any loaded shape: among them the files written by
\* hand that hold two or three InProgress tasks, with and without a start time.
SeveralStores ==
    {ts \in [1..3 -> UNION {LoadedTask(i) : i \in 1..3}] :
        \A i \in 1..3 : ts[i] \in LoadedTask(i)}

InitSeveral == InitFrom(SeveralStores) /\ call = NoCall /\ err = ErrNil

\* A session on such a file in which the clock runs, the window is resized and the user
\* moves the cursor, toggles and quits.
NextSeveral ==
    \/ Advance
    \/ WindowSize
    \/ KeyUp
    \/ KeyDown
    \/ KeyToggle
    \/ KeyQuit

SpecSeveral == InitSeveral /\ [][NextSeveral]_vars

\* ------------------------------------------------- the functions on their own
\* The session variables while a function is applied on its own: a session that has
\* just started from a file holding an empty list, and stays there.
session == <<tasks, cursor, mode, input, yOffset, vpHeight, vpLines, shown, height,
             err, quitting, ticks, disk, now, ghost>>

\* ---- the task file: encoding/json on []Task
\* A Go value of type Task here is [ID, Description, Status, TimeSpent, LastStartedAt,
\* CreatedAt].  ID is a sequence of hexadecimal digit values (uuid.UUID, shortened);
\* Description a sequence of characters; Status and TimeSpent integers; a time.Time is
\* [unix |-> the instant, mono |-> whether it carries a monotonic clock reading,
\*  offset |-> the zone offset of its Location].
HexDigits == <<"0", "1", "2", "3", "4", "5", "6", "7", "8", "9",
               "a", "b", "c", "d", "e", "f">>

HexValue(c) == CHOOSE v \in 0..15 : HexDigits[v + 1] = c

\* uuid.UUID.MarshalText: the digits in lower-case hexadecimal.
MarshalUUID(u) == [i \in DOMAIN u |-> HexDigits[u[i] + 1]]

\* uuid.UUID.UnmarshalText
UnmarshalUUID(txt) == [i \in DOMAIN txt |-> HexValue(txt[i])]

\* An integer as encoding/json writes it: decimal digits, a minus sign in front of a
\* negative one.
RECURSIVE DecimalDigits(_)
DecimalDigits(n) ==
    IF n < 10 THEN <<HexDigits[n + 1]>>
    ELSE Append(DecimalDigits(n \div 10), HexDigits[(n % 10) + 1])

MarshalInt(n) == IF n < 0 THEN <<"-">> \o DecimalDigits(0 - n) ELSE DecimalDigits(n)

RECURSIVE ParseDigits(_)
ParseDigits(txt) ==
    IF Len(txt) = 0 THEN 0
    ELSE 10 * ParseDigits(SubSeq(txt, 1, Len(txt) - 1)) + HexValue(txt[Len(txt)])

UnmarshalInt(txt) ==
    IF txt[1] = "-" THEN 0 - ParseDigits(Tail(txt)) ELSE ParseDigits(txt)

\* The year-1 instant of Go's zero time.Time, before every instant the clock returns.
ZeroUnix == 0 - 1

IsZero(t) == t.unix = ZeroUnix

\* time.Time.Equal: the same instant, whatever the Location and the monotonic reading.
TimeEqual(t, u) == t.unix = u.unix

\* time.Time.MarshalJSON (RFC 3339): the wall-clock reading in the value's zone and the
\* zone offset.  The monotonic reading and the name of the Location are not written.
MarshalTime(t) == [wall |-> t.unix + t.offset, zone |-> t.offset]

\* time.Time.UnmarshalJSON
UnmarshalTime(txt) == [unix |-> txt.wall - txt.zone, mono |-> FALSE, offset |-> txt.zone]

\* The characters encoding/json escapes in a string (it escapes <, > and & as well).
EscapeChar(c) ==
    CASE c = "\""  -> <<"\\", "\"">>
      [] c = "\\"  -> <<"\\", "\\">>
      [] c = "\n"  -> <<"\\", "n">>
      [] c = "<"   -> <<"\\", "u", "0", "0", "3", "c">>
      [] OTHER     -> <<c>>

RECURSIVE MarshalString(_)
MarshalString(str) ==
    IF Len(str) = 0 THEN <<>> ELSE EscapeChar(Head(str)) \o MarshalString(Tail(str))

\* The character of a \u escape, by its code.
CharOfCode(n) == IF n = 60 THEN "<" ELSE "?"

RECURSIVE UnmarshalString(_)
UnmarshalString(txt) ==
    IF Len(txt) = 0 THEN <<>>
    ELSE IF Head(txt) # "\\" THEN <<Head(txt)>> \o UnmarshalString(Tail(txt))
    ELSE IF txt[2] = "u"
         THEN <<CharOfCode(4096 * HexValue(txt[3]) + 256 * HexValue(txt[4])
                            + 16 * HexValue(txt[5]) + HexValue(txt[6]))>>
                  \o UnmarshalString(SubSeq(txt, 7, Len(txt)))
    ELSE IF txt[2] = "n" THEN <<"\n">> \o UnmarshalString(SubSeq(txt, 3, Len(txt)))
    ELSE <<txt[2]>> \o UnmarshalString(SubSeq(txt, 3, Len(txt)))

\* json.Marshal of one Task: the object with the keys of the struct tags.
MarshalTask(t) ==
    [id              |-> MarshalUUID(t.ID),
     description     |-> MarshalString(t.Description),
     status          |-> MarshalInt(t.Status),
     time_spent      |-> MarshalInt(t.TimeSpent),
     last_started_at |-> MarshalTime(t.LastStartedAt),
     created_at      |-> MarshalTime(t.CreatedAt)]

\* Faulty variant of json.Unmarshal of one Task: a task stored as InProgress is loaded
\* as Paused.
UnmarshalTask_PausesInProgress(o) ==
    [ID            |-> UnmarshalUUID(o.id),
     Description   |-> UnmarshalString(o.description),
     Status        |-> IF UnmarshalInt(o.status) = InProgress THEN Paused
                       ELSE UnmarshalInt(o.status),
     TimeSpent     |-> UnmarshalInt(o.time_spent),
     LastStartedAt |-> UnmarshalTime(o.last_started_at),
     CreatedAt     |-> UnmarshalTime(o.created_at)]

\* json.Unmarshal of one Task
UnmarshalTask(o) ==
    [ID            |-> UnmarshalUUID(o.id),
     Description   |-> UnmarshalString(o.description),
     Status        |-> UnmarshalInt(o.status),
     TimeSpent     |-> UnmarshalInt(o.time_spent),
     LastStartedAt |-> UnmarshalTime(o.last_started_at),
     CreatedAt     |-> UnmarshalTime(o.created_at)]

\* saveTasksToFile: json.MarshalIndent of the slice, an array in the order of the slice.
Serialize(store) == [i \in DOMAIN store |-> MarshalTask(store[i])]

\* loadTasksFromFile on a file that decodes.
Deserialize(file) == [i \in DOMAIN file |-> UnmarshalTask(file[i])]

\* The stores the round trip is applied to.  Identifiers of two digits; descriptions with
\* and without characters that are escaped; every status; durations of one digit and of
\* several; the zero time, and instants with and without a monotonic reading, in UTC
\* and in a zone east of it.
SampleTimes ==
    {[unix |-> ZeroUnix, mono |-> FALSE, offset |-> 0]}
        \cup {[unix |-> u, mono |-> m, offset |-> z] :
                  u \in {1, MaxTime}, m \in BOOLEAN, z \in {0, 2}}

SampleDescriptions ==
    {<<>>, <<"x">>, <<" ", "x">>, <<"\"", "x", "\"">>, <<"\\", "n">>, <<"<", "\n">>}

SampleTasks ==
    {[ID |-> id, Description |-> d, Status |-> st, TimeSpent |-> sp,
      LastStartedAt |-> l, CreatedAt |-> c] :
        id \in {<<0, 10>>, <<15, 9>>}, d \in SampleDescriptions,
        st \in {Pending, InProgress, Paused, Completed},
        sp \in {0, 7, 10, 1500, 3600000},
        l \in SampleTimes, c \in SampleTimes \ {[unix |-> ZeroUnix, mono |-> FALSE, offset |-> 0]}}

\* The tasks the stores of two are made of: one of each status, with distinct ids.
PairTasks ==
    {t \in SampleTasks : /\ t.Description = <<"<", "\n">> /\ t.TimeSpent = 1500
                         /\ t.CreatedAt = [unix |-> 1, mono |-> TRUE, offset |-> 2]
                         /\ t.LastStartedAt.unix # MaxTime /\ ~t.LastStartedAt.mono}

FileStores ==
    {<<>>} \cup {<<t>> : t \in SampleTasks}
           \cup {p \in {<<t, u>> : t \in PairTasks, u \in PairTasks} : p[1].ID # p[2].ID}

\* A session that has just started from a file holding an empty list.
InitIdle == InitFrom({<<>>}) /\ err = ErrNil

InitFile ==
    /\ InitIdle
    /\ \E store \in FileStores :
          call = [fn |-> "roundTrip", arg |-> store, returned |-> FALSE, ret |-> <<>>]

\* The store is saved and the file is loaded.
RoundTrip ==
    /\ call.fn = "roundTrip" /\ ~call.returned
    /\ call' = [call EXCEPT !.returned = TRUE, !.ret = Deserialize(Serialize(call.arg))]
    /\ UNCHANGED session

NextFile == RoundTrip

SpecFile == InitFile /\ [][NextFile]_vars

\* ---- formatDuration
\* A time.Duration is a signed integer of fixed width counting a fraction of a second.
\* Go counts nanoseconds in 64 bits; here the unit is a tenth of a second and the width
\* 32 bits, which keeps what the function depends on: the largest duration is not a
\* whole number of seconds, and its fraction is more than half a second
\* (9223372036.854775807 s there, 214748364.7 s here).
Second == 10
Minute == 60 * Second
Hour == 60 * Minute
MaxDuration == 2147483647

\* time.Duration.Round(m) for d >= 0: to the nearest multiple of m, halfway values up;
\* the largest duration when the result would exceed it.
Round(d, m) ==
    LET r == d % m IN
    IF r + r < m THEN d - r
    ELSE IF d <= MaxDuration - (m - r) THEN d + (m - r)
    ELSE MaxDuration

\* fmt's %02d for n >= 0: at least two digits, zero-padded.
Pad2(n) == IF n < 10 THEN <<"0">> \o DecimalDigits(n) ELSE DecimalDigits(n)

\* formatDuration(d)
formatDuration(d) ==
    LET d0 == Round(d, Second)
        h  == d0 \div Hour
        d1 == d0 - h * Hour
        m  == d1 \div Minute
        d2 == d1 - m * Minute
        sec == d2 \div Second
    IN  Pad2(h) \o <<":">> \o Pad2(m) \o <<":">> \o Pad2(sec)

\* The durations the function is applied to: around every carry of the seconds, the
\* minutes and the hours, on both sides of half a second, below and above 24 and 100
\* hours, and the last durations the type holds.
MaxHours == 100

SampleDurations ==
    {h * Hour + m * Minute + sec * Second + f :
        h \in {0, 1, 23, 24, MaxHours - 1, MaxHours}, m \in {0, 1, 59},
        sec \in {0, 1, 9, 10, 59}, f \in {0, 4, 5, 9}}
      \cup {MaxDuration - k : k \in 0..(2 * Second)}

InitFormat ==
    /\ InitIdle
    /\ \E d \in SampleDurations :
          call = [fn |-> "formatDuration", arg |-> d, returned |-> FALSE, ret |-> <<>>]

FormatDuration ==
    /\ call.fn = "formatDuration" /\ ~call.returned
    /\ call' = [call EXCEPT !.returned = TRUE, !.ret = formatDuration(call.arg)]
    /\ UNCHANGED session

NextFormat == FormatDuration

SpecFormat == InitFormat /\ [][NextFormat]_vars

\* ---- the description column of renderTasksView
\* The characters of a description, by display width: a letter and the dot take one
\* column, a wide character ("W", e.g. a CJK ideograph) two, a combining mark ("^") none.
RowChars == {"a", ".", "W", "^"}

\* lipgloss.Width of one character
RuneWidth(c) == CASE c = "W" -> 2 [] c = "^" -> 0 [] OTHER -> 1

\* lipgloss.Width of a text on one line
RECURSIVE Width(_)
Width(str) == IF Len(str) = 0 THEN 0 ELSE RuneWidth(Head(str)) + Width(Tail(str))

Ellipsis == <<".", ".", ".">>

\* Faulty variant of the truncation loop: the room for the dots is not kept.
RECURSIVE truncatedRunes_NoReserve(_, _, _)
truncatedRunes_NoReserve(runes, currentW, budget) ==
    IF Len(runes) = 0 THEN <<>>
    ELSE IF currentW + RuneWidth(Head(runes)) > budget THEN <<>>
    ELSE <<Head(runes)>>
             \o truncatedRunes_NoReserve(Tail(runes), currentW + RuneWidth(Head(runes)),
                                         budget)

\* The loop over the runes: a rune is kept while the width kept so far plus its own does
\* not exceed the budget less the width of the dots.
RECURSIVE truncatedRunes(_, _, _)
truncatedRunes(runes, currentW, budget) ==
    IF Len(runes) = 0 THEN <<>>
    ELSE IF currentW + RuneWidth(Head(runes)) > budget - Width(Ellipsis) THEN <<>>
    ELSE <<Head(runes)>>
             \o truncatedRunes(Tail(runes), currentW + RuneWidth(Head(runes)), budget)

\* descText: the description, truncated when it is wider than descAvailableWidth.
descText(desc, descAvailableWidth) ==
    IF Width(desc) > descAvailableWidth
    THEN truncatedRunes(desc, 0, descAvailableWidth) \o Ellipsis
    ELSE desc

\* The descriptions and the budgets the truncation is applied to: the floor of the
\* budget and the budgets above it, descriptions narrower and wider than each.
MaxDescLen == 5
MinBudget == 5
MaxBudget == 7

RECURSIVE SeqsUpTo(_, _)
SeqsUpTo(S, n) ==
    IF n = 0 THEN {<<>>}
    ELSE LET shorter == SeqsUpTo(S, n - 1)
         IN  shorter \cup {Append(q, c) : q \in {r \in shorter : Len(r) = n - 1}, c \in S}

InitTruncate ==
    /\ InitIdle
    /\ \E desc \in SeqsUpTo(RowChars, MaxDescLen), b \in MinBudget..MaxBudget :
          call = [fn |-> "descText", arg |-> [desc |-> desc, budget |-> b],
                  returned |-> FALSE, ret |-> <<>>]

Truncate ==
    /\ call.fn = "descText" /\ ~call.returned
    /\ call' = [call EXCEPT !.returned = TRUE,
                            !.ret = descText(call.arg.desc, call.arg.budget)]
    /\ UNCHANGED session

NextTruncate == Truncate

SpecTruncate == InitTruncate /\ [][NextTruncate]_vars

\* ---- one row of renderTasksView
\* initializeStyles: the widths of the columns.  The status column is as wide as the
\* widest status text, statusInProgress (an arrow emoji, a space, 11 letters), plus one.
indentWidth == 2
lineNumberWidth == 5
statusRenderWidth == 14 + 1
timeRenderWidth == 10 + 1
dateRenderWidth == 7 + 1
separatorsWidth == 3
rowPadding == 2

\* fmt.Sprintf("%3d. ", i+1): the number on at least three columns, a dot, a space.
LineNumberText(i) == max(3, Len(DecimalDigits(i + 1))) + 2

\* lipgloss Width(w).Render(text): a column of width w, wider when the text is.
Column(w, textWidth) == max(w, textWidth)

\* descAvailableWidth, with its floor
descAvailableWidth(contentWidth, showLineNumbers) ==
    max(MinBudget,
        contentWidth - indentWidth - (IF showLineNumbers THEN lineNumberWidth ELSE 0)
            - statusRenderWidth - dateRenderWidth - timeRenderWidth - separatorsWidth)

\* The width of indentStr + lineContent for task i: the marker, the line number if
\* shown, the status column, the date column, the description, the time column, and
\* the three separators.
RowWidth(contentWidth, showLineNumbers, i, desc, d) ==
    indentWidth
      + (IF showLineNumbers THEN LineNumberText(i) ELSE 0)
      + statusRenderWidth + 1
      + Column(dateRenderWidth, 7) + 1
      + Width(descText(desc, descAvailableWidth(contentWidth, showLineNumbers))) + 1
      + Column(timeRenderWidth, Len(formatDuration(d)) + 2)

\* finalLineStyle = itemStyleToUse.Width(contentWidth), with Padding(0, 1): the text is
\* laid out in contentWidth less the padding, and wrapped when it is wider.
RowAvailable(contentWidth) == contentWidth - rowPadding

\* The rows rendered: viewport widths from the narrowest to that of an 80-column
\* terminal, among them the first width whose budget is above the floor; with and
\* without line numbers; the first task and the thousandth; descriptions from empty to
\* MaxDescLen characters; no time spent and MaxHours hours spent.
MinFullWidth ==
    indentWidth + statusRenderWidth + dateRenderWidth + timeRenderWidth + separatorsWidth
        + MinBudget

RowWidths == {1, MinFullWidth - 1, MinFullWidth, MinFullWidth + rowPadding,
              MinFullWidth + lineNumberWidth + rowPadding, 76}

InitRow ==
    /\ InitIdle
    /\ \E w \in RowWidths, ln \in BOOLEAN, i \in {0, 999},
           desc \in SeqsUpTo({"a", "W"}, MaxDescLen), d \in {0, MaxHours * Hour} :
          call = [fn |-> "renderRow",
                  arg |-> [contentWidth |-> w, showLineNumbers |-> ln, i |-> i,
                           desc |-> desc, d |-> d],
                  returned |-> FALSE, ret |-> 0]

RenderRow ==
    /\ call.fn = "renderRow" /\ ~call.returned
    /\ call' = [call EXCEPT !.returned = TRUE,
                            !.ret = RowWidth(call.arg.contentWidth, call.arg.showLineNumbers,
                                             call.arg.i, call.arg.desc, call.arg.d)]
    /\ UNCHANGED session

NextRow == RenderRow

SpecRow == InitRow /\ [][NextRow]_vars

\* ------------------------------------------------------------------ claims
Common == Ids(tasks) \cap Ids(tasks')

Before(id) == TaskById(tasks, id)

After(id) == TaskById(tasks', id)

CreatedInSession(t) == t.id \in DOMAIN ghost

\* C1: starting from a store with at most one InProgress task, after every event at
\* most one task of the store is InProgress.
C1_AtMostOneInProgress == CountInProgress(tasks) <= 1

\* A task started while another was running: the first is Paused with its time, the
\* second runs.
C1_Witness ==
    /\ Len(tasks) = 2 /\ cursor = 1
    /\ tasks[2].status = InProgress /\ tasks[2].lastStartedAt = now
    /\ tasks[1].status = Paused /\ tasks[1].timeSpent >= 1
    /\ CreatedInSession(tasks[1]) /\ CreatedInSession(tasks[2])

\* C2: one toggle on a Pending or Paused cursor task B while another task A is
\* InProgress leaves, in the state after that event, A Paused with time_spent grown by
\* exactly now - A.last_started_at and B InProgress with last_started_at = now; the
\* event is one step, so no state in between is observable.
C2_ExclusiveToggle ==
    \A a \in DOMAIN tasks :
        (/\ mode = modeViewTasks /\ ~quitting
         /\ cursor < Len(tasks)
         /\ tasks[cursor + 1].status \in {Pending, Paused}
         /\ a # cursor + 1
         /\ tasks[a].status = InProgress)
        => ~ENABLED
              (/\ KeyToggle
               /\ ~(/\ Len(tasks') = Len(tasks)
                    /\ tasks'[a].status = Paused
                    /\ tasks'[a].timeSpent =
                           tasks[a].timeSpent + (now - tasks[a].lastStartedAt)
                    /\ tasks'[cursor + 1].status = InProgress
                    /\ tasks'[cursor + 1].lastStartedAt = now
                    /\ CountInProgress(tasks') = 1))

\* The second task was started at this instant, after the first had run for a while.
C2_Witness ==
    \E a, b \in DOMAIN tasks :
        /\ a # b /\ b = cursor + 1
        /\ tasks[b].status = InProgress /\ tasks[b].lastStartedAt = now
        /\ tasks[a].status = Paused /\ tasks[a].lastStartedAt # ZeroTime
        /\ tasks[a].lastStartedAt < now
        /\ tasks[a].timeSpent = now - tasks[a].lastStartedAt

\* C3: toggle on an InProgress cursor task whose last_started_at is set makes it Paused
\* and adds exactly now - last_started_at to its time_spent (a fresh task toggled at t0
\* and again at t0 + d ends Paused with time_spent = d).
C3_PauseAccrues ==
    (/\ mode = modeViewTasks /\ ~quitting
     /\ cursor < Len(tasks)
     /\ tasks[cursor + 1].status = InProgress
     /\ tasks[cursor + 1].lastStartedAt # ZeroTime)
    => ~ENABLED
          (/\ KeyToggle
           /\ ~(/\ tasks'[cursor + 1].status = Paused
                /\ tasks'[cursor + 1].timeSpent =
                       tasks[cursor + 1].timeSpent + (now - tasks[cursor + 1].lastStartedAt)
                /\ tasks'[cursor + 1].lastStartedAt = tasks[cursor + 1].lastStartedAt))

\* A task created in the session, started at t0 and paused at t0 + 2.
C3_Witness ==
    /\ cursor < Len(tasks)
    /\ tasks[cursor + 1].status = Paused
    /\ CreatedInSession(tasks[cursor + 1])
    /\ tasks[cursor + 1].lastStartedAt = now - 2
    /\ tasks[cursor + 1].timeSpent = 2
    /\ ~quitting

\* The effective elapsed time as the claim defines it.
EffectiveElapsed(t, t1) ==
    IF t.status = InProgress THEN t.timeSpent + (t1 - t.lastStartedAt) ELSE t.timeSpent

\* C4: for as long as a task stays in the store, its effective elapsed time never
\* decreases across any step (an event or the passing of time).
C4_EffectiveMonotone ==
    [][\A id \in Common :
          EffectiveElapsed(After(id), now') >= EffectiveElapsed(Before(id), now)]_vars

\* A task that runs for the second time, with time accrued before and time running now.
C4_Witness ==
    \E i \in DOMAIN tasks :
        /\ tasks[i].status = InProgress
        /\ CreatedInSession(tasks[i])
        /\ tasks[i].timeSpent >= 1
        /\ tasks[i].lastStartedAt < now

\* C5: for a task created in the session, time_spent is exactly the total length of its
\* InProgress intervals that have ended, at every observation point.
C5_SpentIsSumOfIntervals ==
    \A i \in DOMAIN tasks :
        CreatedInSession(tasks[i]) => tasks[i].timeSpent = ghost[tasks[i].id].done

\* A task whose last interval began at 2 and that holds 2 units: two intervals ended.
C5_Witness ==
    \E i \in DOMAIN tasks :
        /\ CreatedInSession(tasks[i])
        /\ tasks[i].status # InProgress
        /\ tasks[i].lastStartedAt = 2
        /\ tasks[i].timeSpent = 2

\* C6: on quit every InProgress task is accrued (time_spent += now - last_started_at) and
\* Paused before the store goes to the save operation; the store handed to save holds no
\* InProgress task.
C6_QuitAccruesBeforeSave ==
    /\ [](\A i \in DOMAIN disk.tasks : disk.tasks[i].status # InProgress)
    /\ [][KeyQuit =>
             /\ disk'.calls = disk.calls + 1
             /\ Len(disk'.tasks) = Len(tasks)
             /\ \A i \in DOMAIN tasks :
                   /\ disk'.tasks[i].status # InProgress
                   /\ tasks[i].status = InProgress =>
                         /\ disk'.tasks[i].status = Paused
                         /\ disk'.tasks[i].timeSpent =
                                tasks[i].timeSpent + (now - tasks[i].lastStartedAt)
                   /\ tasks[i].status # InProgress => disk'.tasks[i] = tasks[i]]_vars

\* The session has quit while a task was running since 1: it was saved Paused, with the
\* whole run accrued.
C6_Witness ==
    /\ quitting /\ disk.calls = 1 /\ now = 3
    /\ \E i \in DOMAIN disk.tasks :
          /\ disk.tasks[i].status = Paused
          /\ CreatedInSession(disk.tasks[i])
          /\ disk.tasks[i].lastStartedAt = 1
          /\ disk.tasks[i].timeSpent = 2

\* C7: once a task is Completed, no event changes its status or its time_spent for as
\* long as it stays in the store.
C7_CompletedIsTerminal ==
    [][\A id \in Common :
          Before(id).status = Completed =>
              /\ After(id).status = Completed
              /\ After(id).timeSpent = Before(id).timeSpent]_vars

\* The session has quit with a Completed task that had run; the clock had moved on
\* since its last start.
C7_Witness ==
    /\ quitting
    /\ \E i \in DOMAIN tasks :
          /\ tasks[i].status = Completed
          /\ CreatedInSession(tasks[i])
          /\ tasks[i].timeSpent = 1
          /\ tasks[i].lastStartedAt = 1
          /\ now = 3

\* C8: complete on a Pending, Paused or InProgress cursor task makes it Completed; an
\* InProgress one first gets now - last_started_at added to time_spent, another keeps its
\* time_spent; no other task changes.
C8_Complete ==
    (/\ mode = modeViewTasks /\ ~quitting
     /\ cursor < Len(tasks)
     /\ tasks[cursor + 1].status \in {Pending, Paused, InProgress})
    => ~ENABLED
          (/\ KeyComplete
           /\ ~(/\ Len(tasks') = Len(tasks)
                /\ tasks'[cursor + 1].status = Completed
                /\ tasks'[cursor + 1].timeSpent =
                       IF tasks[cursor + 1].status = InProgress
                       THEN tasks[cursor + 1].timeSpent
                                + (now - tasks[cursor + 1].lastStartedAt)
                       ELSE tasks[cursor + 1].timeSpent
                /\ \A j \in DOMAIN tasks : j # cursor + 1 => tasks'[j] = tasks[j]))

\* A task completed while it ran, beside a Paused task that kept its time.
C8_Witness ==
    /\ Len(tasks) = 2 /\ ~quitting
    /\ tasks[cursor + 1].status = Completed
    /\ CreatedInSession(tasks[cursor + 1])
    /\ tasks[cursor + 1].lastStartedAt = 2
    /\ tasks[cursor + 1].timeSpent = now - 2
    /\ now = 3
    /\ \E j \in DOMAIN tasks :
          j # cursor + 1 /\ tasks[j].status = Paused /\ tasks[j].timeSpent = 1

\* C9: for a task that is InProgress with an unset last_started_at, every accrual site
\* leaves time_spent unchanged, and the time the renderer shows for it is time_spent.
C9_ZeroStartIsIgnored ==
    /\ [](\A i \in DOMAIN tasks :
             (tasks[i].status = InProgress /\ tasks[i].lastStartedAt = ZeroTime)
                 => timeDisplay(tasks[i], now) = tasks[i].timeSpent)
    /\ [][\A id \in Common :
             (Before(id).status = InProgress /\ Before(id).lastStartedAt = ZeroTime)
                 => After(id).timeSpent = Before(id).timeSpent]_vars

\* A loaded task that was InProgress without a start time has been paused or completed
\* later on, and still holds the time it was loaded with.
C9_Witness ==
    \E i \in DOMAIN tasks :
        /\ tasks[i].status \in {Paused, Completed}
        /\ tasks[i].lastStartedAt = ZeroTime
        /\ tasks[i].timeSpent = 1
        /\ now >= 2

\* C10: after every event the cursor is a valid index: 0 for an empty store, within
\* 0 .. len-1 otherwise.
C10_CursorValid ==
    IF Len(tasks) = 0 THEN cursor = 0 ELSE 0 <= cursor /\ cursor < Len(tasks)

\* Of two loaded tasks the first has been deleted: the second is the only row, under
\* the cursor.
C10_Witness ==
    /\ Len(tasks) = 1 /\ cursor = 0 /\ mode = modeViewTasks
    /\ tasks[1].id = 2 /\ ~CreatedInSession(tasks[1])

\* ------------------------------------------------------- the viewport claims
\* The cursor row is one of the rows the window shows.
CursorVisible(cur, off, h) == off <= cur /\ cur < off + h

\* The cursor values a navigate event hands to ensureCursorVisible in this state.
NavTargets == {c \in {cursor - 1, cursor + 1} : 0 <= c /\ c < Len(tasks)}

C12_NavigateKeepsCursorVisible ==
    [][((KeyUp \/ KeyDown) /\ Len(tasks) > 0)
          => CursorVisible(cursor', yOffset', vpHeight')]_vars

\* The cursor and the offset one down key leaves, from cursor cur and offset off over
\* the rendered store ts in a window of h rows: the Down branch and the tail of Update.
DownStep(ts, cur, off, h) ==
    LET moved == Len(ts) > 0 /\ cur < Len(ts) - 1
        c1    == IF moved THEN cur + 1 ELSE cur
        o1    == IF moved THEN ensureCursorVisible(ts, c1, off, LineCount(ts), h) ELSE off
    IN  <<ClampCursor(c1, Len(ts)),
          ViewportKey(SetContent(o1, LineCount(ts), h), "down", LineCount(ts), h)>>

\* The cursor and the offset after k down keys from cursor 0 and offset 0.
RECURSIVE DownRun(_, _, _)
DownRun(ts, h, k) ==
    IF k = 0 THEN <<0, 0>>
    ELSE LET p == DownRun(ts, h, k - 1) IN DownStep(ts, p[1], p[2], h)

\* The state is one that cursor-many down keys from cursor 0 and offset 0 lead to, in a
\* list longer than the window.
OnDownRun ==
    /\ mode = modeViewTasks
    /\ Len(tasks) > vpHeight
    /\ vpLines = Len(tasks)
    /\ <<cursor, yOffset>> = DownRun(tasks, vpHeight, cursor)

\* C13: with viewport height h, n > h tasks, cursor 0 and offset 0, moving the cursor
\* down one step at a time to index k (h <= k <= n - 1) leaves the offset at exactly
\* k - h + 1: each down key of that run that brings the cursor to such a k ends there.
C13_DownRunOffset ==
    [][(KeyDown /\ OnDownRun /\ cursor < Len(tasks) - 1 /\ cursor + 1 >= vpHeight)
          => yOffset' = cursor' - vpHeight + 1]_vars

\* Every down key acts as DownStep computes.
DownStepIsKeyDown ==
    [][KeyDown => <<cursor', yOffset'>> = DownStep(tasks, cursor, yOffset, vpHeight)]_vars

\* ------------------------------------------------------- the cursor and the store
\* C14: navigation never wraps: an up event with cursor = 0 and a down event with
\* cursor = len(store) - 1 leave the cursor unchanged; every other up or down event
\* changes the cursor by exactly one; on an empty store both are no-ops.
C14_NoWrap ==
    (mode = modeViewTasks /\ ~quitting) =>
        /\ ~ENABLED
              (/\ KeyUp
               /\ ~(/\ cursor' = IF Len(tasks) > 0 /\ cursor > 0 THEN cursor - 1 ELSE cursor
                    /\ tasks' = tasks /\ mode' = mode))
        /\ ~ENABLED
              (/\ KeyDown
               /\ ~(/\ cursor' = IF Len(tasks) > 0 /\ cursor < Len(tasks) - 1
                                  THEN cursor + 1 ELSE cursor
                    /\ tasks' = tasks /\ mode' = mode))

\* The cursor has been moved down to the last row of the longest list.
C14_Witness ==
    /\ mode = modeViewTasks /\ ~quitting
    /\ Len(tasks) = MaxListed /\ cursor = MaxListed - 1 /\ yOffset > 0

\* C15: after every resize event with a non-empty store the cursor row is inside the
\* window of the new height, scroll_offset <= cursor < scroll_offset + viewport_height,
\* also when the height shrinks below cursor - offset + 1.  Stated for the resizes the
\* claim includes that arrive in Viewing mode after an earlier resize and find the
\* cursor row inside the window.
C15_ResizeKeepsCursorVisible ==
    [][(/\ WindowSize
        /\ Len(tasks) > 0
        /\ mode = modeViewTasks
        /\ height # 0
        /\ CursorVisible(cursor, yOffset, vpHeight))
          => CursorVisible(cursor', yOffset', vpHeight')]_vars

\* C16: every resize event, in Viewing and in Adding mode, recomputes viewport_height as
\* max(1, terminal height minus the chrome heights); so viewport_height >= 1 always, and
\* on the return to Viewing mode the viewport height is the one the most recent terminal
\* size gives (with the error band or without it).
C16_ResizeRecomputesHeight ==
    /\ [](vpHeight >= 1)
    /\ [][/\ WindowSize => vpHeight' = ResizedHeight(height', err)
          /\ (KeyEsc /\ height # 0) =>
                vpHeight' \in {ResizedHeight(height, ErrNil), ResizedHeight(height, ErrLoad)}]_vars

\* C17: after every cursor-moving action other than navigate the cursor row is inside
\* the visible window, scroll_offset <= cursor < scroll_offset + viewport_height: an add
\* leaves cursor 0 and offset 0 (the return to Viewing mode moves neither), and a delete
\* that leaves a non-empty store leaves the clamped cursor inside the window.  The
\* delete is taken with the cursor row inside the window before it.
C17_AddDeleteKeepCursorVisible ==
    [][/\ (KeyEnter /\ tasks' # tasks) => CursorVisible(cursor', yOffset', vpHeight')
       /\ (KeyEsc /\ CursorVisible(cursor, yOffset, vpHeight))
             => CursorVisible(cursor', yOffset', vpHeight')
       /\ (KeyDelete /\ Len(tasks') > 0 /\ CursorVisible(cursor, yOffset, vpHeight))
             => CursorVisible(cursor', yOffset', vpHeight')]_vars

\* C18: add with a description that is non-empty after trimming inserts exactly one new
\* task at index 0, with status Pending, time_spent 0 and unset last_started_at, shifts
\* every existing task down by one index with all its fields unchanged, and sets the
\* cursor to 0; from an empty store the result is a store of 1 Pending task with cursor 0.
C18_AddPrepends ==
    (mode = modeAddTask /\ ~quitting /\ ~IsBlank(input))
    => ~ENABLED
          (/\ KeyEnter
           /\ ~(/\ Len(tasks') = Len(tasks) + 1
                /\ tasks'[1].status = Pending
                /\ tasks'[1].timeSpent = 0
                /\ tasks'[1].lastStartedAt = ZeroTime
                /\ tasks'[1].desc = input
                /\ tasks'[1].id \notin Ids(tasks)
                /\ \A i \in DOMAIN tasks : tasks'[i + 1] = tasks[i]
                /\ cursor' = 0))

\* A task has been added in front of a loaded task that is running: the new task is
\* Pending at index 0 under the cursor, the running task is at index 1 as it was loaded.
C18_Witness ==
    /\ mode = modeAddTask /\ input = <<>> /\ cursor = 0
    /\ Len(tasks) = 2
    /\ CreatedInSession(tasks[1]) /\ tasks[1].status = Pending /\ tasks[1].timeSpent = 0
    /\ ~CreatedInSession(tasks[2])
    /\ tasks[2].status = InProgress /\ tasks[2].timeSpent = 1 /\ tasks[2].lastStartedAt = 1

\* C19: add with an empty or whitespace-only description creates no task, sets no error
\* message, and leaves the store, the cursor and the mode unchanged.
C19_BlankAddIsIgnored ==
    (mode = modeAddTask /\ ~quitting /\ \A i \in DOMAIN input : input[i] = " ")
    => ~ENABLED
          (/\ KeyEnter
           /\ ~(/\ tasks' = tasks
                /\ cursor' = cursor
                /\ mode' = mode
                /\ err' \in {err, ErrNil}))

\* Adding mode over two tasks with the cursor on the second, the input a single space.
C19_Witness ==
    /\ mode = modeAddTask /\ ~quitting
    /\ input = <<" ">>
    /\ Len(tasks) = 2 /\ cursor = 1

C21_DeleteClampsCursor ==
    (mode = modeViewTasks /\ ~quitting /\ Len(tasks) > 0)
    => ~ENABLED
          (/\ KeyDelete
           /\ ~(/\ cursor' = IF Len(tasks') = 0 THEN 0
                              ELSE IF cursor < Len(tasks') THEN cursor
                              ELSE Len(tasks') - 1
                /\ Len(tasks') = 0 => mode' = modeAddTask))

\* Of five loaded tasks the first and the last have been deleted, the last one from
\* under the cursor: the cursor is on the last of the three that remain.
C21_Witness ==
    /\ mode = modeViewTasks /\ ~quitting
    /\ Len(tasks) = 3 /\ cursor = 2
    /\ tasks[1].id = 2 /\ tasks[3].id = 4

\* ------------------------------------------------------- modes, ticks, quit, errors
\* C22: the session is never in Viewing mode with an empty store: not at session start
\* with zero loaded tasks (file absent, file holding an empty list, load error), not
\* after the delete of the last task, not after Esc from Adding mode.
C22_NeverViewingEmpty == ~(mode = modeViewTasks /\ Len(tasks) = 0)

\* C23: a tick event mutates nothing: the store, the cursor, the scroll offset, the
\* viewport height, the mode and the error state are the same before and after it.
\* (The two display toggles are not part of the modelled state.)
C23_TickMutatesNothing ==
    [][Tick => UNCHANGED <<tasks, cursor, yOffset, vpHeight, mode, input, err,
                           vpLines, shown, height, quitting, disk>>]_vars

\* A session a tick arrives in with every one of those fields away from its initial
\* value: two tasks, the cursor and the list scrolled to the second, a resized
\* viewport, an error held.
C23_Witness ==
    /\ ENABLED Tick
    /\ Len(tasks) = 2 /\ cursor = 1 /\ yOffset = 1
    /\ vpHeight = 1 /\ mode = modeViewTasks /\ err = ErrNotExist

\* View() in task-view mode with a non-empty store: the frame is the window of the lines
\* the viewport holds.  Row i of the list is in the frame when it is in the window.
InFrame(i) ==
    /\ height # 0 /\ ~quitting /\ mode = modeViewTasks /\ Len(tasks) > 0
    /\ i \in DOMAIN shown
    /\ i - 1 >= yOffset /\ i - 1 < yOffset + vpHeight

\* C24: after each tick event the frame handed to the rendering engine shows, for the
\* InProgress task, its effective elapsed time as of that tick.  A tick leaves the state
\* as it is, so the states after a tick are the states a tick is enabled in.
C24_TickFrameShowsElapsed ==
    ENABLED Tick =>
        \A i \in DOMAIN tasks :
            (tasks[i].status = InProgress /\ InFrame(i))
                => shown[i] = timeDisplay(tasks[i], now)

ExitFrameShowsError == quitting /\ height # 0 /\ err # ErrNil /\ err # ErrNotExist

\* C26: the quit event returns the terminate command whether the save succeeded or
\* failed, and on failure the save error is recorded in the session error state, where
\* the exit frame displays it.
C26_QuitTerminatesOnSaveFailure ==
    [][\A k \in {"q", "ctrl+c"} :
          /\ (QuitWith(k, TRUE) \/ QuitWith(k, FALSE)) => quitting'
          /\ QuitWith(k, FALSE) => /\ err' = ErrSave
                                   /\ height # 0 => ExitFrameShowsError']_vars

\* A session that quit with an InProgress task accrued and a save that failed.
C26_Witness ==
    /\ quitting /\ err = ErrSave /\ disk.calls = 1 /\ height # 0
    /\ \E i \in DOMAIN tasks : tasks[i].status = Paused /\ tasks[i].timeSpent > 1

\* C27: whenever a quit action is received, in whichever mode the session is, the session
\* performs the session-end accrual, persists the store and terminates: no quit key is
\* swallowed.
C27_QuitNeverSwallowed ==
    [][\A k \in {"q", "ctrl+c"} :
          (QuitWith(k, TRUE) \/ QuitWith(k, FALSE) \/ InputKey(k))
              => /\ quitting'
                 /\ tasks' = QuitTasks(tasks, now)
                 /\ disk' = [disk EXCEPT !.calls = @ + 1, !.tasks = tasks']]_vars

\* View() while running, once a size has been received: the error band is part of the
\* frame when an error is held and it is not file-absent.
ErrorBandShown == height # 0 /\ ~quitting /\ err # ErrNil /\ err # ErrNotExist

\* C28: loading never prevents start.  A missing file yields an empty store and no error
\* message is displayed for it; an unreadable or malformed file yields an empty store
\* with the load error held and displayed; and an add onto the empty store succeeds and
\* yields a store of one task.
C28_LoadNeverPreventsStart ==
    /\ [](/\ err = ErrNotExist => ~ErrorBandShown /\ ~ExitFrameShowsError
          /\ (err = ErrNotExist /\ vpLines = 0) => Len(tasks) = 0
          /\ err = ErrLoad => /\ Len(tasks) = 0
                              /\ height # 0 => (ErrorBandShown \/ ExitFrameShowsError))
    /\ [][(KeyEnter /\ Len(tasks) = 0 /\ input # <<>> /\ input[1] # " ")
             => /\ Len(tasks') = 1
                /\ tasks'[1].status = Pending /\ tasks'[1].desc = input]_vars

\* A session started without a file, in which a task has been added.
C28_Witness ==
    /\ err = ErrNotExist /\ Len(tasks) = 1 /\ height # 0 /\ ~quitting
    /\ tasks[1].status = Pending /\ DOMAIN ghost = {tasks[1].id}

\* A step of a key that is not bound to Quit, in either mode.
OtherKeyStep ==
    \/ KeyToggleLineNumbers \/ KeyToggleCalendar \/ KeyAdd \/ KeyDelete \/ KeyUp
    \/ KeyDown \/ KeyToggle \/ KeyComplete \/ KeyOtherView \/ KeyEnter \/ KeyEsc
    \/ \E k \in Keys \ {"enter", "esc", "q", "ctrl+c"} : InputKey(k)

\* A step of q or ctrl+c, in either mode, where the save of the quit, if any, succeeds.
QuitKeyStep == \E k \in {"q", "ctrl+c"} : QuitWith(k, TRUE) \/ InputKey(k)

C32_ToggleCompleteFrame ==
    (mode = modeViewTasks /\ ~quitting) =>
        /\ ~ENABLED (/\ KeyToggle \/ KeyComplete
                     /\ ~(/\ Len(tasks') = Len(tasks)
                          /\ cursor' = cursor
                          /\ \A i \in DOMAIN tasks :
                                /\ tasks'[i].id = tasks[i].id
                                /\ tasks'[i].desc = tasks[i].desc))
        /\ (\A j \in DOMAIN tasks : j # cursor + 1 => tasks[j].status # InProgress)
              => ~ENABLED (/\ KeyToggle
                           /\ ~(\A j \in DOMAIN tasks :
                                    j # cursor + 1 => tasks'[j] = tasks[j]))

\* The second of two tasks has been started and paused again beside a Paused first task.
C32_Witness ==
    /\ Len(tasks) = 2 /\ cursor = 1 /\ mode = modeViewTasks /\ ~quitting
    /\ tasks[1].status = Paused /\ tasks[1].timeSpent = 1
    /\ tasks[2].status = Paused /\ tasks[2].timeSpent = 2 /\ tasks[2].lastStartedAt = 1

\* C33: a task that is InProgress and entered InProgress through a toggle in this
\* session has a last_started_at that is non-zero and <= now, in every reachable state.
\* A task created in the session can only have entered InProgress that way; for any
\* task, the step that takes it into InProgress sets the start to the clock, the steps
\* that leave it InProgress leave the start alone, and the clock does not go back: from
\* no state does one of the events that change the store or the clock do otherwise.
C33_StartedTaskHasStart ==
    /\ \A i \in DOMAIN tasks :
           (tasks[i].id \in DOMAIN ghost /\ tasks[i].status = InProgress)
               => tasks[i].lastStartedAt # ZeroTime /\ tasks[i].lastStartedAt <= now
    /\ ~quitting =>
          ~ENABLED (/\ Advance \/ KeyToggle \/ KeyComplete \/ KeyQuit \/ KeyDelete \/ KeyEnter
                    /\ ~(/\ now' >= now
                         /\ \A id \in Common :
                               After(id).status = InProgress =>
                                   IF Before(id).status # InProgress
                                   THEN /\ After(id).lastStartedAt = now
                                        /\ now # ZeroTime /\ now' = now
                                   ELSE After(id).lastStartedAt = Before(id).lastStartedAt))

\* A loaded Pending task and a task added in the session, the second started at 2 and
\* still running at 3 after the first was started at 1 and paused by the second start.
C33_Witness ==
    /\ Len(tasks) = 2 /\ now = 3
    /\ tasks[1].id \in DOMAIN ghost /\ tasks[1].status = InProgress
    /\ tasks[1].lastStartedAt = 2
    /\ tasks[2].id \notin DOMAIN ghost /\ tasks[2].status = Paused
    /\ tasks[2].lastStartedAt = 1 /\ tasks[2].timeSpent = 1

\* The total, over the tasks of S, of the growth of the effective elapsed time in a step.
RECURSIVE Credited(_)
Credited(S) ==
    IF S = {} THEN 0
    ELSE LET id == CHOOSE x \in S : TRUE
         IN  (EffectiveElapsed(After(id), now') - EffectiveElapsed(Before(id), now))
                 + Credited(S \ {id})

\* C37: with at most one task InProgress initially, between any two observation points
\* the effective elapsed time of the tasks present at both grows, in total, by at most
\* the clock time between them.  Step by step: the growth summed over the tasks a step
\* keeps is at most the time the step takes; no task's effective time goes down (C4), so
\* the steps between two points add up to the bound.  The steps are those of the events
\* that change the store or the clock; any other event credits nothing.
C37_NoDoubleCounting ==
    ~quitting =>
        ~ENABLED (/\ Advance \/ KeyToggle \/ KeyComplete \/ KeyQuit \/ KeyDelete \/ KeyEnter
                  /\ Credited(Common) > now' - now)

\* Two tasks added in the session at time 1 and worked on one after the other: at time
\* 3 the first has one second, the second is in its second, two seconds in all.
C37_Witness ==
    /\ Len(tasks) = 2 /\ now = 3
    /\ CreatedInSession(tasks[1]) /\ CreatedInSession(tasks[2])
    /\ EffectiveElapsed(tasks[1], now) = 1 /\ EffectiveElapsed(tasks[2], now) = 1
    /\ CountInProgress(tasks) = 1

\* C38: from any loaded store, even one that holds several InProgress tasks, immediately
\* after a toggle that moves the cursor task into InProgress exactly one task is
\* InProgress, the cursor task, and every other task that was InProgress is Paused;
\* immediately after quit no task is InProgress.
C38_SingleRunningAfterToggle ==
    [][/\ (/\ tasks' # tasks
           /\ cursor < Len(tasks)
           /\ tasks[cursor + 1].status \in {Pending, Paused}
           /\ KeyToggle)
          => /\ CountInProgress(tasks') = 1
             /\ tasks'[cursor + 1].status = InProgress
             /\ \A j \in DOMAIN tasks :
                    (j # cursor + 1 /\ tasks[j].status = InProgress)
                        => tasks'[j].status = Paused
       /\ (quitting' # quitting) => CountInProgress(tasks') = 0]_vars

\* The first task, loaded Pending, was started while the two other tasks of the file
\* were InProgress: both are Paused now.
C38_Witness ==
    /\ Len(tasks) = 3 /\ ~quitting
    /\ tasks[1].status = InProgress /\ tasks[1].timeSpent = 0
    /\ tasks[2].status = Paused /\ tasks[2].id = 2
    /\ tasks[3].status = Paused /\ tasks[3].id = 3 /\ tasks[3].lastStartedAt = ZeroTime

\* C39: in Adding mode no key changes the status, time_spent or last_started_at of an
\* existing task or removes a task: the store changes only by the insertion of a confirmed
\* add (Enter on a non-blank input), which puts one new Pending task in front of the
\* unchanged tasks and leaves the mode Adding; the mode leaves Adding only by Esc, which
\* switches to Viewing and leaves the store as it was.
C39_AddingFrame ==
    (mode = modeAddTask /\ ~quitting) =>
        ~ENABLED (/\ KeyEnter \/ KeyEsc \/ KeyInput
                  /\ ~(/\ (tasks' # tasks)
                            => /\ KeyEnter
                               /\ ~IsBlank(input)
                               /\ Len(tasks') = Len(tasks) + 1
                               /\ SubSeq(tasks', 2, Len(tasks')) = tasks
                               /\ tasks'[1].status = Pending
                               /\ tasks'[1].id \notin Ids(tasks)
                               /\ mode' = modeAddTask
                       /\ (mode' # mode)
                            => /\ KeyEsc
                               /\ mode' = modeViewTasks
                               /\ tasks' = tasks))

\* A task was added in front of a running task of the file, and the mode is still
\* Adding: the running task is as it was loaded.
C39_Witness ==
    /\ mode = modeAddTask /\ input = <<>> /\ ~quitting
    /\ Len(tasks) = 2
    /\ CreatedInSession(tasks[1]) /\ tasks[1].status = Pending
    /\ ~CreatedInSession(tasks[2]) /\ tasks[2].status = InProgress
    /\ disk.calls = 0

\* C40: the error reported on exit reflects the save outcome only: when the save that
\* quit performs succeeds, the exit frame shows no error, whatever came before the quit
\* (a session that started with a load error and whose first key is quit included).
C40_ExitErrorIsSaveOutcome ==
    [][(quitting' # quitting)
          => \A k \in {"q", "ctrl+c"} : QuitWith(k, TRUE) => ~ExitFrameShowsError']_vars

\* ------------------------------------------------------- the functions on their own
\* C31: serialising a store and deserialising the result yields a store of the same
\* length and order whose tasks are field for field equal: id, description, status code,
\* time_spent, last_started_at (the zero value included) and created_at, times being
\* equal as instants; a task persisted as InProgress is loaded as InProgress.
C31_RoundTrip ==
    (call.fn = "roundTrip" /\ call.returned) =>
        /\ Len(call.ret) = Len(call.arg)
        /\ \A i \in DOMAIN call.arg :
              LET a == call.arg[i]
                  b == call.ret[i]
              IN  /\ b.ID = a.ID
                  /\ b.Description = a.Description
                  /\ b.Status = a.Status
                  /\ b.TimeSpent = a.TimeSpent
                  /\ TimeEqual(b.LastStartedAt, a.LastStartedAt)
                  /\ IsZero(b.LastStartedAt) <=> IsZero(a.LastStartedAt)
                  /\ TimeEqual(b.CreatedAt, a.CreatedAt)

\* A store of two tasks back from the file: the first InProgress with a start time read
\* in a zone east of UTC, the second with the zero time, both with escaped characters.
C31_Witness ==
    /\ call.fn = "roundTrip" /\ call.returned /\ Len(call.ret) = 2
    /\ call.ret[1].Status = InProgress /\ call.ret[1].LastStartedAt.offset = 2
    /\ IsZero(call.ret[2].LastStartedAt)
    /\ call.ret[1].Description = <<"<", "\n">>

\* The nearest whole number of seconds to d, halfway values up.
NearestSecond(d) == d \div Second + (IF 2 * (d % Second) >= Second THEN 1 ELSE 0)

\* C34: formatDuration(d), for every non-negative duration d, rounds d to the nearest
\* whole second (half up) and returns HH:MM:SS with SS and MM in 00..59 on two digits
\* and HH = total seconds div 3600 on at least two digits, not wrapped at 24.
C34_FormatDuration ==
    (call.fn = "formatDuration" /\ call.returned) =>
        LET total == NearestSecond(call.arg) IN
        call.ret = Pad2(total \div 3600) \o <<":">> \o Pad2((total \div 60) % 60)
                       \o <<":">> \o Pad2(total % 60)

\* C35: for every description wider than the budget B (B >= 5) the truncated text ends
\* with "...", is at most B wide, and what stands before the dots is a prefix of the
\* description made of whole characters, the longest one of width <= B - 3; a
\* description of width <= B is rendered unchanged.
C35_Truncation ==
    (call.fn = "descText" /\ call.returned) =>
        LET desc == call.arg.desc
            B    == call.arg.budget
            k    == Len(call.ret) - 3
        IN  IF Width(desc) > B
            THEN /\ k >= 0 /\ k <= Len(desc)
                 /\ SubSeq(call.ret, k + 1, k + 3) = <<".", ".", ".">>
                 /\ Width(call.ret) <= B
                 /\ SubSeq(call.ret, 1, k) = SubSeq(desc, 1, k)
                 /\ Width(SubSeq(desc, 1, k)) <= B - 3
                 /\ \A j \in (k + 1)..Len(desc) : Width(SubSeq(desc, 1, j)) > B - 3
            ELSE call.ret = desc

\* A description of wide characters, a mark and a dot, cut after its first character
\* and its mark: the next wide character would not leave room for the dots.
C35_Witness ==
    /\ call.fn = "descText" /\ call.returned
    /\ call.arg = [desc |-> <<"W", "^", "W", "W", ".">>, budget |-> 6]
    /\ call.ret = <<"W", "^", ".", ".", ".">>

\* C36: every task row fits its width budget and occupies one display line: for every
\* viewport width >= 1 and both line-number settings, the marker, the line number, the
\* status, date and time columns, the separators and the rendered description together
\* do not exceed the width available inside the row, the viewport width less the
\* horizontal padding of the row style.
C36_RowFits ==
    (call.fn = "renderRow" /\ call.returned) =>
        call.ret <= RowAvailable(call.arg.contentWidth)

====
